---- MODULE Spec2Model ----
(***************************************************************************)
(* Model of the diorama-mc ray tracer: the intersection routines of        *)
(* cube.rs and sphere.rs, the recursive shader cast_ray / cast_shadow of   *)
(* main.rs and the render pass.                                            *)
(*                                                                         *)
(* f32 values are modelled as exact rationals extended with +inf, -inf,    *)
(* NaN and a negative zero (the values the slab test relies on).  A value  *)
(* is a record [k, n, d]: k = "num" is the rational n/d in lowest terms.   *)
(***************************************************************************)
EXTENDS Integers, Sequences, FiniteSets, TLC

VARIABLES
    objects,        \* cast_ray: the scene, a sequence of cubes
    lights,         \* cast_ray: the sequence of lights
    skybox,         \* cast_ray: the decoded sky texture (index of a texture)
    stack,          \* cast_ray: the chain of nested invocations, outermost first
    ret,            \* cast_ray: the value returned by the invocation that just ended
    log,            \* cast_ray: history of (caller depth, callee depth) and returns
    fn,             \* pure functions: which routine was applied
    args,           \* pure functions: its arguments
    out,            \* pure functions: its result
    rpc,            \* render: position of the render pass
    shade,          \* render: the color cast_ray yields for each primary ray
    pixel_colors,   \* render: the colors collected by the parallel map
    buffer,         \* render: the framebuffer
    writes,         \* render: how many times each cell was written in this pass
    main            \* main: the position of the main loop, the camera, the decodes

vars == <<objects, lights, skybox, stack, ret, log, fn, args, out,
          rpc, shade, pixel_colors, buffer, writes, main>>

castVars == <<objects, lights, skybox, stack, ret, log>>
pureVars == <<fn, args, out>>
renderVars == <<rpc, shade, pixel_colors, buffer, writes>>
mainVars == <<main>>

----------------------------------------------------------------------------
(* f32 arithmetic                                                          *)

Abs(x) == IF x < 0 THEN -x ELSE x

RECURSIVE Gcd(_, _)
Gcd(a, b) ==
    IF b = 0 THEN a ELSE CHOOSE g \in {Gcd(x0, x1) : x0 \in {b}, x1 \in {a % b}} : TRUE

\* the rational n/d (d # 0) in lowest terms with a positive denominator
NumOf(n, d, g) ==
    [k |-> "num", n |-> (IF d < 0 THEN -1 ELSE 1) * (n \div g),
     d |-> (IF d < 0 THEN -1 ELSE 1) * (d \div g)]
Num(n, d) ==
    CHOOSE r \in
        {CHOOSE q \in {NumOf(x0, x1, g) : g \in {Gcd(Abs(x0), Abs(x1))}} : TRUE :
            x0 \in {n}, x1 \in {d}} : TRUE

I(n) == [k |-> "num", n |-> n, d |-> 1]
Inf == [k |-> "inf", n |-> 0, d |-> 1]
NInf == [k |-> "ninf", n |-> 0, d |-> 1]
NaN == [k |-> "nan", n |-> 0, d |-> 1]
NegZero == [k |-> "nzero", n |-> 0, d |-> 1]

IsNaN(a) == a.k = "nan"
IsFinite(a) == a.k \in {"num", "nzero"}
IsZero(a) == IsFinite(a) /\ a.n = 0

\* -1, 0, 1; the sign of a zero is that of its sign bit
Sign(a) ==
    CASE a.k = "inf" -> 1
      [] a.k = "ninf" -> -1
      [] a.k = "nzero" -> -1
      [] a.k = "num" -> IF a.n < 0 THEN -1 ELSE 1
      [] OTHER -> 0

SignedInf(s) == IF s < 0 THEN NInf ELSE Inf

\* Every operation below comes as a pair: XOf computes the result from values,
\* and X evaluates each operand once and applies XOf to the values.

FNegOf(a) ==
    CASE a.k = "inf" -> NInf
      [] a.k = "ninf" -> Inf
      [] a.k = "nan" -> NaN
      [] a.k = "nzero" -> I(0)
      [] OTHER -> IF a.n = 0 THEN NegZero ELSE Num(-a.n, a.d)
FNeg(a) ==
    CHOOSE r \in {FNegOf(x0) : x0 \in {a}} : TRUE

FAddOf(a, b) ==
    CASE IsNaN(a) \/ IsNaN(b) -> NaN
      [] a.k = "inf" -> IF b.k = "ninf" THEN NaN ELSE Inf
      [] a.k = "ninf" -> IF b.k = "inf" THEN NaN ELSE NInf
      [] b.k \in {"inf", "ninf"} -> b
      [] a.k = "nzero" /\ b.k = "nzero" -> NegZero
      [] OTHER ->
            CHOOSE r \in
                {Num(a.n * (b.d \div g) + b.n * (a.d \div g), (a.d \div g) * b.d) :
                    g \in {Gcd(a.d, b.d)}} : TRUE
FAdd(a, b) ==
    CHOOSE r \in {FAddOf(x0, x1) : x0 \in {a}, x1 \in {b}} : TRUE

FSub(a, b) == FAdd(a, FNeg(b))

FMulOf(a, b) ==
    CASE IsNaN(a) \/ IsNaN(b) -> NaN
      [] ~IsFinite(a) \/ ~IsFinite(b) ->
            IF IsZero(a) \/ IsZero(b) THEN NaN ELSE SignedInf(Sign(a) * Sign(b))
      [] IsZero(a) \/ IsZero(b) ->
            IF Sign(a) * Sign(b) < 0 THEN NegZero ELSE I(0)
      [] OTHER ->
            CHOOSE r \in
                {Num((a.n \div g1) * (b.n \div g2), (a.d \div g2) * (b.d \div g1)) :
                    g1 \in {Gcd(Abs(a.n), b.d)}, g2 \in {Gcd(Abs(b.n), a.d)}} : TRUE
FMul(a, b) ==
    CHOOSE r \in {FMulOf(x0, x1) : x0 \in {a}, x1 \in {b}} : TRUE

FDivOf(a, b) ==
    CASE IsNaN(a) \/ IsNaN(b) -> NaN
      [] ~IsFinite(a) -> IF ~IsFinite(b) THEN NaN ELSE SignedInf(Sign(a) * Sign(b))
      [] ~IsFinite(b) -> IF Sign(a) * Sign(b) < 0 THEN NegZero ELSE I(0)
      [] IsZero(b) -> IF IsZero(a) THEN NaN ELSE SignedInf(Sign(a) * Sign(b))
      [] IsZero(a) -> IF Sign(a) * Sign(b) < 0 THEN NegZero ELSE I(0)
      [] OTHER -> Num(a.n * b.d, a.d * b.n)
FDiv(a, b) ==
    CHOOSE r \in {FDivOf(x0, x1) : x0 \in {a}, x1 \in {b}} : TRUE

\* a < b; every comparison with NaN is false, and -0 = +0
FLtOf(a, b) ==
    CASE IsNaN(a) \/ IsNaN(b) -> FALSE
      [] a.k = "inf" \/ b.k = "ninf" -> FALSE
      [] a.k = "ninf" \/ b.k = "inf" -> TRUE
      [] OTHER ->
            CHOOSE r \in
                {a.n * (b.d \div g) < b.n * (a.d \div g) : g \in {Gcd(a.d, b.d)}} : TRUE
FLt(a, b) ==
    CHOOSE r \in {FLtOf(x0, x1) : x0 \in {a}, x1 \in {b}} : TRUE

FGt(a, b) == FLt(b, a)
FEqOf(a, b) == ~IsNaN(a) /\ ~IsNaN(b) /\ ~FLtOf(a, b) /\ ~FLtOf(b, a)
FEq(a, b) ==
    CHOOSE r \in {FEqOf(x0, x1) : x0 \in {a}, x1 \in {b}} : TRUE
FLeOf(a, b) == FLtOf(a, b) \/ FEqOf(a, b)
FLe(a, b) ==
    CHOOSE r \in {FLeOf(x0, x1) : x0 \in {a}, x1 \in {b}} : TRUE
FGe(a, b) == FLe(b, a)

\* f32::min and f32::max: a NaN operand is ignored
FMinOf(a, b) == IF IsNaN(a) THEN b ELSE IF IsNaN(b) THEN a ELSE IF FLtOf(b, a) THEN b ELSE a
FMaxOf(a, b) == IF IsNaN(a) THEN b ELSE IF IsNaN(b) THEN a ELSE IF FLtOf(a, b) THEN b ELSE a
FMin(a, b) ==
    CHOOSE r \in {FMinOf(x0, x1) : x0 \in {a}, x1 \in {b}} : TRUE
FMax(a, b) ==
    CHOOSE r \in {FMaxOf(x0, x1) : x0 \in {a}, x1 \in {b}} : TRUE

FAbsOf(a) == IF Sign(a) < 0 THEN FNegOf(a) ELSE a
FAbs(a) ==
    CHOOSE r \in {FAbsOf(x0) : x0 \in {a}} : TRUE

\* f32::clamp(lo, hi): NaN stays NaN
FClampOf(a, lo, hi) ==
    IF IsNaN(a) THEN NaN ELSE IF FLtOf(a, lo) THEN lo ELSE IF FLtOf(hi, a) THEN hi ELSE a
FClamp(a, lo, hi) ==
    CHOOSE r \in {FClampOf(x0, x1, x2) : x0 \in {a}, x1 \in {lo}, x2 \in {hi}} : TRUE

RECURSIVE FPowiOf(_, _)
FPowiOf(a, e) ==
    IF e = 0 THEN I(1)
    ELSE CHOOSE r \in {FMulOf(a, p) : p \in {FPowiOf(a, e - 1)}} : TRUE
FPowi(a, e) ==
    CHOOSE r \in {FPowiOf(x0, e) : x0 \in {a}} : TRUE

\* floor of the square root of a natural number (Newton's iteration)
RECURSIVE ISqrtIter(_, _)
ISqrtIter(x, r) ==
    CHOOSE s \in
        {IF next >= r THEN r ELSE ISqrtIter(x, next) :
            next \in {(r + (x \div r)) \div 2}} : TRUE
ISqrt(x) == CHOOSE r \in {IF x0 = 0 THEN 0 ELSE ISqrtIter(x0, x0) : x0 \in {x}} : TRUE

\* resolution of the square root of a number that is not the square of a rational
SqrtScale == 16

\* f32::sqrt: NaN below zero; exact on the squares of rationals, and rounded
\* down to a multiple of 1/SqrtScale elsewhere
FSqrtOf(a) ==
    CASE IsNaN(a) \/ a.k = "ninf" -> NaN
      [] a.k = "inf" -> Inf
      [] IsZero(a) -> a
      [] a.n < 0 -> NaN
      [] OTHER ->
            CHOOSE r \in
                {IF rn * rn = a.n /\ rd * rd = a.d THEN Num(rn, rd)
                 ELSE Num(ISqrt((a.n * SqrtScale * SqrtScale) \div a.d), SqrtScale) :
                    rn \in {ISqrt(a.n)}, rd \in {ISqrt(a.d)}} : TRUE
FSqrt(a) ==
    CHOOSE r \in {FSqrtOf(x0) : x0 \in {a}} : TRUE

\* an f32 has 24 significant bits: the integers up to F32Digits are exact
F32Digits == 16777216

\* the gap between neighbouring f32 values around m >= F32Digits
RECURSIVE Ulp(_, _)
Ulp(m, p) == IF m \div p < F32Digits THEN p ELSE Ulp(m, 2 * p)

\* a value of magnitude F32Digits or more rounded to the nearest f32, ties to
\* the even significand; smaller values are kept exact
RoundToF32Of(f) ==
    IF f.k # "num" \/ Abs(f.n) \div f.d < F32Digits THEN f
    ELSE CHOOSE r \in
            {IF 2 * (Abs(f.n) % m) > m \/ (2 * (Abs(f.n) % m) = m /\ (Abs(f.n) \div m) % 2 = 1)
             THEN I(Sign(f) * ((Abs(f.n) \div m) + 1) * (m \div f.d))
             ELSE I(Sign(f) * (Abs(f.n) \div m) * (m \div f.d)) :
                m \in {f.d * Ulp(Abs(f.n) \div f.d, 1)}} : TRUE
RoundToF32(f) == CHOOSE r \in {RoundToF32Of(x0) : x0 \in {f}} : TRUE

\* usize as f32
UsizeAsF32(n) == RoundToF32(I(n))

----------------------------------------------------------------------------
(* Vec3                                                                    *)

V(x, y, z) == <<I(x), I(y), I(z)>>
VAdd(a, b) == CHOOSE r \in {[i \in 1..3 |-> FAdd(x0[i], x1[i])] : x0 \in {a}, x1 \in {b}} : TRUE
VSub(a, b) == CHOOSE r \in {[i \in 1..3 |-> FSub(x0[i], x1[i])] : x0 \in {a}, x1 \in {b}} : TRUE
VScale(a, s) == CHOOSE r \in {[i \in 1..3 |-> FMul(x0[i], x1)] : x0 \in {a}, x1 \in {s}} : TRUE
VNeg(a) == CHOOSE r \in {[i \in 1..3 |-> FNeg(x0[i])] : x0 \in {a}} : TRUE
ComponentMul(a, b) ==
    CHOOSE r \in {[i \in 1..3 |-> FMul(x0[i], x1[i])] : x0 \in {a}, x1 \in {b}} : TRUE
DotOf(a, b) == FAdd(FAdd(FMul(a[1], b[1]), FMul(a[2], b[2])), FMul(a[3], b[3]))
Dot(a, b) ==
    CHOOSE r \in {DotOf(x0, x1) : x0 \in {a}, x1 \in {b}} : TRUE
Magnitude(a) == CHOOSE r \in {FSqrt(DotOf(x0, x0)) : x0 \in {a}} : TRUE
NormalizeOf(a, m) == [i \in 1..3 |-> FDiv(a[i], m)]
Normalize(a) ==
    CHOOSE r \in {NormalizeOf(x0, x1) : x0 \in {a}, x1 \in {Magnitude(a)}} : TRUE

----------------------------------------------------------------------------
(* Material, Intersect, Cube, Sphere                                       *)

Color(r, g, b) == <<r, g, b>>
Black == Color(0, 0, 0)

\* the albedo array [f32; 4], indexed from 0 as in the source
Albedo(a0, a1, a2, a3) == [i \in 0..3 |-> <<a0, a1, a2, a3>>[i + 1]]

\* Material::new, with the emission field cast_ray reads; texture <<>> is None
Material(diffuse, specular, albedo, refractive_index, emission) ==
    [diffuse |-> diffuse, specular |-> specular, albedo |-> albedo,
     refractive_index |-> refractive_index, emission |-> emission,
     has_texture |-> FALSE, texture |-> <<>>]

\* Material::black()
MaterialBlack == Material(Black, 0, Albedo(I(0), I(0), I(0), I(0)), I(0), Black)

\* Material::new_with_texture
MaterialWithTexture(specular, albedo, refractive_index, texture) ==
    [diffuse |-> Color(255, 0, 0), specular |-> specular, albedo |-> albedo,
     refractive_index |-> refractive_index, emission |-> Black,
     has_texture |-> TRUE, texture |-> texture]

\* Intersect::empty(): the no-hit sentinel
Empty ==
    [is_intersecting |-> FALSE, point |-> V(0, 0, 0), normal |-> V(0, 0, 0),
     distance |-> I(0), material |-> MaterialBlack, u |-> I(0), v |-> I(0)]

\* Intersect::new(point, normal, distance, material, u, v)
NewIntersect(point, normal, distance, material, u, v) ==
    [is_intersecting |-> TRUE, point |-> point, normal |-> normal,
     distance |-> distance, material |-> material, u |-> u, v |-> v]

Cube(min, max, material) == [min |-> min, max |-> max, material |-> material]
Sphere(center, radius, material) == [center |-> center, radius |-> radius, material |-> material]

\* the face mapping of Cube::get_uv (a 3 x 4 atlas of a 375 x 500 image);
\* l is local_point / size, component by component
CubeFaceUv(l, normal) ==
    LET img_width == I(375)
        img_height == I(500)
        column_width == FDiv(img_width, I(3))
        row_height == FDiv(img_height, I(4))
        one == I(1)
        uv == CASE FGt(normal[1], I(0)) ->
                     <<FAdd(FMul(l[2], column_width), FMul(I(2), column_width)),
                       FAdd(FMul(FSub(one, l[3]), row_height), row_height)>>
                [] FLt(normal[1], I(0)) ->
                     <<FMul(FSub(one, l[2]), column_width),
                       FAdd(FMul(FSub(one, l[3]), row_height), row_height)>>
                [] FGt(normal[2], I(0)) ->
                     <<FAdd(FMul(l[1], column_width), column_width),
                       FAdd(FMul(l[3], row_height), FMul(I(3), row_height))>>
                [] FLt(normal[2], I(0)) ->
                     <<FAdd(FMul(l[1], column_width), column_width),
                       FAdd(FMul(l[3], row_height), row_height)>>
                [] FGt(normal[3], I(0)) ->
                     <<FAdd(FMul(l[1], column_width), column_width),
                       FMul(FSub(one, l[2]), row_height)>>
                [] OTHER ->
                     <<FAdd(FMul(l[1], column_width), column_width),
                       FAdd(FMul(l[2], row_height), FMul(I(2), row_height))>>
    IN  <<FDiv(uv[1], img_width), FSub(one, FDiv(uv[2], img_height))>>

\* Cube::get_uv
CubeGetUv(self, point, normal) ==
    CHOOSE r \in {CubeFaceUv(l, n) :
                    l \in {[i \in 1..3 |-> FDiv(FSub(point[i], self.min[i]),
                                                FSub(self.max[i], self.min[i]))]},
                    n \in {normal}} : TRUE

\* the face tolerance 1e-3 of Cube::ray_intersect
FaceEps == Num(1, 1000)

\* overall slab entry: max of the per-axis minima
SlabEnter(t1, t3, t5) == FMax(FMax(t1, t3), t5)

\* overall slab exit: min of the per-axis maxima
SlabExit(t2, t4, t6) == FMin(FMin(t2, t4), t6)

SlabHitWithoutExitTest(t_enter, t_exit) == FLt(t_enter, t_exit)

\* the hit test of the slab method
SlabHit(t_enter, t_exit) == FLt(t_enter, t_exit) /\ FGt(t_exit, I(0))

\* the entry and exit parameters Cube::ray_intersect computes
CubeSlabs(self, ray_origin, ray_direction) ==
    CHOOSE r \in
        {CHOOSE s \in
            {LET t1 == FMin(tmin[1], tmax[1])
                 t2 == FMax(tmin[1], tmax[1])
                 t3 == FMin(tmin[2], tmax[2])
                 t4 == FMax(tmin[2], tmax[2])
                 t5 == FMin(tmin[3], tmax[3])
                 t6 == FMax(tmin[3], tmax[3])
             IN  [t_enter |-> SlabEnter(t1, t3, t5), t_exit |-> SlabExit(t2, t4, t6)] :
                tmin \in {ComponentMul(VSub(self.min, ray_origin), inv_dir)},
                tmax \in {ComponentMul(VSub(self.max, ray_origin), inv_dir)}} : TRUE :
            inv_dir \in {[i \in 1..3 |-> FDiv(I(1), ray_direction[i])]}} : TRUE

\* the face normal Cube::ray_intersect selects for a point
CubeNormal(self, point) ==
    CASE FLt(FAbs(FSub(point[1], self.min[1])), FaceEps) -> V(-1, 0, 0)
      [] FLt(FAbs(FSub(point[1], self.max[1])), FaceEps) -> V(1, 0, 0)
      [] FLt(FAbs(FSub(point[2], self.min[2])), FaceEps) -> V(0, -1, 0)
      [] FLt(FAbs(FSub(point[2], self.max[2])), FaceEps) -> V(0, 1, 0)
      [] FLt(FAbs(FSub(point[3], self.min[3])), FaceEps) -> V(0, 0, -1)
      [] OTHER -> V(0, 0, 1)

\* the Intersect built for a hit at point, with the normal already selected
CubeHitAt(self, point, normal, t_enter) ==
    CHOOSE r \in
        {NewIntersect(point, normal, t_enter, self.material, uv[1], uv[2]) :
            uv \in {CubeGetUv(self, point, normal)}} : TRUE

\* Cube::ray_intersect on values
CubeRayIntersectOf(self, ray_origin, ray_direction) ==
    CHOOSE r \in
        {IF SlabHit(s.t_enter, s.t_exit)
         THEN CHOOSE h \in
                {CHOOSE i \in {CubeHitAt(self, point, normal, s.t_enter) :
                                  normal \in {CubeNormal(self, point)}} : TRUE :
                    point \in {VAdd(ray_origin, VScale(ray_direction, s.t_enter))}} : TRUE
         ELSE Empty :
            s \in {CubeSlabs(self, ray_origin, ray_direction)}} : TRUE

\* Cube::ray_intersect
CubeRayIntersect(self, ray_origin, ray_direction) ==
    CHOOSE r \in {CubeRayIntersectOf(c, o, d) :
                    c \in {self}, o \in {ray_origin}, d \in {ray_direction}} : TRUE

\* Sphere::get_uv: atan2 and asin are kept symbolic
SphereGetUv(self, point) ==
    LET normalized == [i \in 1..3 |-> FDiv(FSub(point[i], self.center[i]), self.radius)]
    IN  <<[k |-> "u", z |-> normalized[3], x |-> normalized[1]],
          [k |-> "v", y |-> normalized[2]]>>

\* the root Sphere::ray_intersect tries: the smaller one
SphereRoot(a, b, discriminant) ==
    FDiv(FSub(FNeg(b), FSqrt(discriminant)), FMul(I(2), a))

\* Sphere::ray_intersect on values
SphereRayIntersectOf(self, ray_origin, ray_direction) ==
    LET oc == VSub(ray_origin, self.center)
        a == Dot(ray_direction, ray_direction)
        b == FMul(I(2), Dot(oc, ray_direction))
        c == FSub(Dot(oc, oc), FMul(self.radius, self.radius))
        discriminant == FSub(FMul(b, b), FMul(FMul(I(4), a), c))
    IN  IF FGt(discriminant, I(0))
        THEN CHOOSE r \in
                {IF FGt(t, I(0))
                 THEN CHOOSE h \in
                        {LET normal == Normalize(VSub(point, self.center))
                             uv == SphereGetUv(self, point)
                         IN  NewIntersect(point, normal, t, self.material, uv[1], uv[2]) :
                            point \in {VAdd(ray_origin, VScale(ray_direction, t))}} : TRUE
                 ELSE Empty :
                    t \in {SphereRoot(a, b, discriminant)}} : TRUE
        ELSE Empty

\* Sphere::ray_intersect
SphereRayIntersect(self, ray_origin, ray_direction) ==
    CHOOSE r \in {SphereRayIntersectOf(c, o, d) :
                    c \in {self}, o \in {ray_origin}, d \in {ray_direction}} : TRUE

----------------------------------------------------------------------------
(* Color (channels 0..255) and Texture                                     *)

\* a float converted to a channel: saturating, NaN becomes 0
ToChannelOf(f) ==
    CASE IsNaN(f) -> 0
      [] f.k = "inf" -> 255
      [] f.k = "ninf" -> 0
      [] f.n < 0 -> 0
      [] f.n \div f.d > 255 -> 255
      [] OTHER -> f.n \div f.d

\* Color * f32
\* <<q, m>> with c * r = q * d + m and 0 <= m < d, for 0 <= r < d, by halving c
RECURSIVE MulDivMod(_, _, _)
MulDivMod(c, r, d) ==
    IF c = 0 THEN <<0, 0>>
    ELSE CHOOSE qm \in
            {CHOOSE q \in {<<2 * h[1] + t \div d, t % d>> :
                              t \in {2 * h[2] + (c % 2) * r}} : TRUE :
                h \in {MulDivMod(c \div 2, r, d)}} : TRUE

\* one channel times a float, truncated and saturated
ScaleChannel(c, f) ==
    CASE f.k # "num" -> ToChannelOf(FMulOf(I(c), f))
      [] f.n <= 0 \/ c = 0 -> 0
      [] f.n \div f.d > 255 -> 255
      [] OTHER ->
            LET whole == c * (f.n \div f.d) + MulDivMod(c, f.n % f.d, f.d)[1]
            IN  IF whole > 255 THEN 255 ELSE whole

ColorScaleOf(c, f) == [i \in 1..3 |-> ScaleChannel(c[i], f)]
ColorScale(c, f) == CHOOSE r \in {ColorScaleOf(x0, x1) : x0 \in {c}, x1 \in {f}} : TRUE

\* Color + Color, saturating
ColorAddOf(a, b) == [i \in 1..3 |-> IF a[i] + b[i] > 255 THEN 255 ELSE a[i] + b[i]]
ColorAdd(a, b) == CHOOSE r \in {ColorAddOf(x0, x1) : x0 \in {a}, x1 \in {b}} : TRUE

\* a Texture: [width, height, color_array], color_array row-major from index 0.
\* The record lists one period of the image: width * height texels for an
\* image listed in full, fewer for an image that repeats a pattern.
TexturePixel(tex, x, y) ==
    tex.color_array[((y * tex.width + x) % Len(tex.color_array)) + 1]

Magenta == Color(255, 0, 255)

\* Texture::get_color
GetColor(tex, x, y) ==
    IF x < tex.width /\ y < tex.height THEN TexturePixel(tex, x, y) ELSE Magenta

\* a float truncated to usize (NaN and negatives become 0)
ToUsizeOf(f) ==
    CASE IsNaN(f) \/ f.k = "ninf" -> 0
      [] f.k = "inf" -> 2147483647
      [] f.n < 0 -> 0
      [] OTHER -> f.n \div f.d
ToUsize(f) == CHOOSE r \in {ToUsizeOf(x0) : x0 \in {f}} : TRUE

\* f32::round: half away from zero
FRoundOf(f) ==
    IF ~IsFinite(f) \/ f.k = "nzero" THEN f
    ELSE IF f.n >= 0 THEN I((2 * f.n + f.d) \div (2 * f.d))
    ELSE FNegOf(I((2 * (0 - f.n) + f.d) \div (2 * f.d)))
FRound(f) == CHOOSE r \in {FRoundOf(x0) : x0 \in {f}} : TRUE

\* Texture::get_color_at_uv
GetColorAtUv(tex, u, v) ==
    LET cu == FClamp(u, I(0), I(1))
        cv == FClamp(v, I(0), I(1))
    IN  CHOOSE r \in
            {GetColor(tex, x, y) :
                x \in {ToUsize(RoundToF32(FMul(cu,
                           RoundToF32(FSub(UsizeAsF32(tex.width), I(1))))))},
                y \in {ToUsize(RoundToF32(FMul(FSub(I(1), cv),
                           RoundToF32(FSub(UsizeAsF32(tex.height), I(1))))))}} : TRUE

\* usize::min
Min(a, b) == IF a < b THEN a ELSE b

\* Material::get_diffuse_color
GetDiffuseColor(self, u, v) ==
    IF self.has_texture /\ self.texture # <<>>
    THEN LET cu == FClamp(u, I(0), I(1))
             cv == FClamp(v, I(0), I(1))
         IN  CHOOSE r \in
                {GetColor(self.texture, Min(x, self.texture.width - 1),
                          Min(y, self.texture.height - 1)) :
                    x \in {ToUsize(FRound(RoundToF32(FMul(cu,
                               UsizeAsF32(self.texture.width)))))},
                    y \in {ToUsize(FRound(RoundToF32(FMul(FSub(I(1), cv),
                               UsizeAsF32(self.texture.height)))))}} : TRUE
    ELSE self.diffuse

----------------------------------------------------------------------------
(* The shader: main.rs                                                     *)

BIAS == Num(1, 1000)
SKYBOX_COLOR == Color(69, 142, 228)
AMBIENT_LIGHT_COLOR == Color(50, 50, 50)
AMBIENT_INTENSITY == Num(3, 10)
MAX_DEPTH == 3

Light(position, color, intensity) ==
    [position |-> position, color |-> color, intensity |-> intensity]

\* offset_point: the direction argument is not used
OffsetPointOf(intersect, direction) ==
    LET offset == VScale(intersect.normal, BIAS)
    IN  VAdd(intersect.point, offset)
OffsetPoint(intersect, direction) ==
    CHOOSE r \in {OffsetPointOf(x0, x1) : x0 \in {intersect}, x1 \in {direction}} : TRUE

\* reflect
ReflectOf(incident, normal) ==
    VSub(incident, VScale(normal, FMul(I(2), Dot(incident, normal))))
Reflect(incident, normal) ==
    CHOOSE r \in {ReflectOf(x0, x1) : x0 \in {incident}, x1 \in {normal}} : TRUE

\* the two branches of refract once cosi is known
RefractWith(incident, normal, eta_t, cosi) ==
    LET entering == FLt(cosi, I(0))
        n_cosi == IF entering THEN FNeg(cosi) ELSE cosi
        eta == IF entering THEN FDiv(I(1), eta_t) ELSE eta_t
        n_normal == IF entering THEN VNeg(normal) ELSE normal
    IN  CHOOSE r \in
            {IF FGt(k, I(0))
             THEN Reflect(incident, n_normal)
             ELSE VAdd(VScale(incident, eta),
                       VScale(n_normal, FSub(FMul(eta, n_cosi), FSqrt(k)))) :
                k \in {FSub(I(1), FMul(FMul(eta, eta),
                                       FSub(I(1), FMul(n_cosi, n_cosi))))}} : TRUE

\* refract
Refract(incident, normal, eta_t) ==
    CHOOSE r \in
        {RefractWith(i, n, e, FNeg(FMin(FMax(Dot(i, n), I(-1)), I(1)))) :
            i \in {incident}, n \in {normal}, e \in {eta_t}} : TRUE

\* the attenuation formula of cast_shadow for a blocker at distance_ratio
ShadowFormulaOf(distance_ratio) ==
    FSub(Num(1, 2), FMin(FMul(distance_ratio, distance_ratio), I(1)))
ShadowFormula(distance_ratio) ==
    CHOOSE r \in {ShadowFormulaOf(x0) : x0 \in {distance_ratio}} : TRUE

\* the loop of cast_shadow from object i on: stops at the first blocker
RECURSIVE ShadowScan(_, _, _, _, _)
ShadowScan(objs, i, shadow_ray_origin, light_dir, light_distance) ==
    IF i > Len(objs) THEN I(0)
    ELSE CHOOSE r \in
            {IF shadow_intersect.is_intersecting
                /\ FLt(shadow_intersect.distance, light_distance)
             THEN ShadowFormula(FDiv(shadow_intersect.distance, light_distance))
             ELSE ShadowScan(objs, i + 1, shadow_ray_origin, light_dir, light_distance) :
                shadow_intersect \in
                    {CubeRayIntersectOf(objs[i], shadow_ray_origin, light_dir)}} : TRUE

\* cast_shadow on values
CastShadowOf(intersect, light, objs) ==
    CHOOSE r \in
        {ShadowScan(objs, 1, OffsetPoint(intersect, light_dir), light_dir, light_distance) :
            light_dir \in {Normalize(VSub(light.position, intersect.point))},
            light_distance \in {Magnitude(VSub(light.position, intersect.point))}} : TRUE

\* cast_shadow
CastShadow(intersect, light, objs) ==
    CHOOSE r \in {CastShadowOf(i, l, o) : i \in {intersect}, l \in {light}, o \in {objs}} : TRUE

\* light.intensity * (1.0 - shadow_intensity) in cast_ray
LightIntensity(light, shadow_intensity) ==
    FMul(light.intensity, FSub(I(1), shadow_intensity))

\* the Fresnel factor of cast_ray (Schlick) before the final clamp
SchlickOf(cos_theta, r0) ==
    FAdd(r0, FMul(FSub(I(1), r0), FPowi(FSub(I(1), cos_theta), 5)))
Schlick(normal, ray_direction, refractive_index) ==
    CHOOSE r \in
        {SchlickOf(cos_theta, r0) :
            cos_theta \in {FNeg(FMin(FMax(Dot(normal, ray_direction), I(-1)), I(1)))},
            r0 \in {FPowi(FDiv(FSub(I(1), refractive_index),
                               FAdd(I(1), refractive_index)), 2)}} : TRUE

\* the Fresnel factor left without its clamp (not cast_ray's behaviour)
FresnelWithoutClamp(normal, ray_direction, refractive_index) ==
    Schlick(normal, ray_direction, refractive_index)

\* fresnel_reflectance in cast_ray
FresnelReflectance(normal, ray_direction, refractive_index) ==
    FClamp(Schlick(normal, ray_direction, refractive_index), I(0), I(1))

\* clamp_color
ClampColor(color) ==
    CHOOSE r \in
        {[i \in 1..3 |-> IF c[i] > 255 THEN 255 ELSE IF c[i] < 0 THEN 0 ELSE c[i]] :
            c \in {color}} : TRUE

----------------------------------------------------------------------------
(* Idle values of the variables a specification does not use              *)

CastIdle ==
    /\ objects = <<>> /\ lights = <<>> /\ skybox = <<>>
    /\ stack = <<>> /\ ret = Black /\ log = <<>>
PureIdle == fn = "none" /\ args = <<>> /\ out = <<>>
RenderIdle ==
    /\ rpc = [phase |-> "idle", i |-> 0, order |-> <<>>]
    /\ shade = <<>> /\ pixel_colors = <<>> /\ buffer = <<>> /\ writes = <<>>
MainIdle == main = [pc |-> "idle"]

----------------------------------------------------------------------------
(* PureSpec: the intersection routines, cast_shadow and the Fresnel factor *)
(* applied to inputs drawn from bounded sets                               *)

MaxCoord == 2
MaxRadius == 2
MaxLight == 5
MaxIndexHalves == 4

Points == {V(x, y, z) : x, y, z \in (0 - MaxCoord)..MaxCoord}

Plain == Material(Color(200, 200, 200), 1, Albedo(I(1), I(0), I(0), I(0)), I(1), Black)

\* direction components, with both zeros
CubeDirs ==
    {<<x, y, z>> : x, y, z \in {I(-1), I(0), NegZero, I(1)}}
        \ {<<x, y, z>> : x, y, z \in {I(0), NegZero}}
IntDirs == {V(x, y, z) : x, y, z \in {-1, 0, 1}} \ {V(0, 0, 0)}
AxisDirs == {d \in IntDirs : Abs(d[1].n) + Abs(d[2].n) + Abs(d[3].n) = 1}

TestCube == Cube(V(-1, -1, -1), V(1, 1, 1), Plain)
TestSpheres == {Sphere(V(0, 0, 0), I(r), Plain) : r \in 1..MaxRadius}

\* the point a shadow is cast on: the top of a floor, and the slabs above it
FloorHit == NewIntersect(V(0, 0, 0), V(0, 1, 0), I(1), Plain, I(0), I(0))
Floor == Cube(V(-1, -1, -1), V(1, 0, 1), Plain)
Slabs == {Cube(V(-1, a, -1), V(1, a + 1, 1), Plain) : a \in 1..MaxLight}
Occluders == Slabs \cup {Floor}
OccluderLists == {<<>>} \cup {<<c>> : c \in Occluders} \cup {<<c, e>> : c, e \in Occluders}
TestLights ==
    {Light(V(0, h, 0), Color(255, 255, 255), I(1)) : h \in 2..MaxLight}
    \cup {Light(V(3, 4, 0), Color(255, 255, 255), Num(4, 5)),
          Light(<<I(0), Num(2 * MaxLight + 1, 2), I(0)>>, Color(255, 255, 255), I(1))}

PureInit == PureIdle /\ CastIdle /\ RenderIdle /\ MainIdle

ApplyCube ==
    /\ fn = "none"
    /\ \E o \in Points, d \in CubeDirs :
          /\ args' = [self |-> TestCube, ray_origin |-> o, ray_direction |-> d]
          /\ out' = CubeRayIntersect(TestCube, o, d)
    /\ fn' = "cube"
    /\ UNCHANGED <<castVars, renderVars, mainVars>>

ApplySphere ==
    /\ fn = "none"
    /\ \E sp \in TestSpheres, o \in Points, d \in IntDirs :
          /\ args' = [self |-> sp, ray_origin |-> o, ray_direction |-> d]
          /\ out' = SphereRayIntersect(sp, o, d)
    /\ fn' = "sphere"
    /\ UNCHANGED <<castVars, renderVars, mainVars>>

ApplyShadow ==
    /\ fn = "none"
    /\ \E l \in TestLights, objs \in OccluderLists :
          /\ args' = [intersect |-> FloorHit, light |-> l, objects |-> objs]
          /\ out' = LET sh == CastShadow(FloorHit, l, objs)
                    IN  [shadow_intensity |-> sh, light_intensity |-> LightIntensity(l, sh)]
    /\ fn' = "shadow"
    /\ UNCHANGED <<castVars, renderVars, mainVars>>

ApplyFresnel ==
    /\ fn = "none"
    /\ \E n \in AxisDirs, d \in IntDirs, h \in 1..MaxIndexHalves :
          /\ args' = [normal |-> n, ray_direction |-> d, refractive_index |-> Num(h, 2)]
          /\ out' = FresnelReflectance(n, d, Num(h, 2))
    /\ fn' = "fresnel"
    /\ UNCHANGED <<castVars, renderVars, mainVars>>

\* a decoded image of width x height texels that repeats a pattern of
\* period texels, each of its own color and none of them magenta
TestTexture(width, height, period) ==
    [width |-> width, height |-> height,
     color_array |-> [i \in 1..period |-> Color(i, 2 * i, 100 + i)]]

\* the textures sampled: every size up to MaxTexSide listed in full, and
\* single rows a few texels wider than the integers an f32 holds exactly
MaxTexSide == 3
MaxExcess == 4
TestTextures ==
    {TestTexture(w, h, w * h) : w, h \in 1..MaxTexSide}
        \cup {TestTexture(F32Digits + e, 1, MaxTexSide) : e \in 1..MaxExcess}

\* texture coordinates inside and outside [0, 1], in steps of 1 / SampleDen
SampleDen == 6
SampleCoords ==
    {Num(n, SampleDen) : n \in (0 - SampleDen)..(2 * SampleDen)}
        \cup {NaN, Inf, NInf, NegZero}

ApplyTexture ==
    /\ fn = "none"
    /\ \E tex \in TestTextures, u, v \in SampleCoords :
          /\ args' = [texture |-> tex, u |-> u, v |-> v]
          /\ out' = [at_uv |-> GetColorAtUv(tex, u, v),
                     diffuse |-> GetDiffuseColor(
                                     MaterialWithTexture(1, Plain.albedo, I(1), tex), u, v)]
    /\ fn' = "texture"
    /\ UNCHANGED <<castVars, renderVars, mainVars>>

\* unit directions with rational components
UnitDirs ==
    AxisDirs
    \cup {<<Num(3 * a, 5), Num(4 * b, 5), I(0)>> : a, b \in {-1, 1}}
    \cup {<<Num(4 * a, 5), Num(3 * b, 5), I(0)>> : a, b \in {-1, 1}}
    \cup {<<I(0), Num(3 * a, 5), Num(4 * b, 5)>> : a, b \in {-1, 1}}
    \cup {<<I(0), Num(4 * a, 5), Num(3 * b, 5)>> : a, b \in {-1, 1}}

ApplyRefract ==
    /\ fn = "none"
    /\ \E i \in UnitDirs, n \in AxisDirs, h \in 1..MaxIndexHalves :
          /\ args' = [incident |-> i, normal |-> n, eta_t |-> Num(h, 2)]
          /\ out' = Refract(i, n, Num(h, 2))
    /\ fn' = "refract"
    /\ UNCHANGED <<castVars, renderVars, mainVars>>

PureNext ==
    ApplyCube \/ ApplySphere \/ ApplyShadow \/ ApplyFresnel \/ ApplyTexture \/ ApplyRefract

PureSpec == PureInit /\ [][PureNext]_vars

----------------------------------------------------------------------------
(* Claims about the intersection routines, cast_shadow and the Fresnel     *)
(* factor (PureSpec)                                                       *)

\* C5: every Intersection returned by Cube::ray_intersect or
\* Sphere::ray_intersect with the hit flag set has distance > 0 (a nearest hit
\* at distance <= 0 yields the empty sentinel).
C5_HitDistancePositive ==
    (fn \in {"cube", "sphere"} /\ out.is_intersecting) => FGt(out.distance, I(0))

\* the quadratic of a sphere and a ray: a t^2 + b t + c = 0
QuadA(x) == Dot(x.ray_direction, x.ray_direction)
QuadB(x) == FMul(I(2), Dot(VSub(x.ray_origin, x.self.center), x.ray_direction))
QuadC(x) ==
    FSub(Dot(VSub(x.ray_origin, x.self.center), VSub(x.ray_origin, x.self.center)),
         FMul(x.self.radius, x.self.radius))
QuadDisc(x) == FSub(FMul(QuadB(x), QuadB(x)), FMul(FMul(I(4), QuadA(x)), QuadC(x)))

\* the ray meets the sphere at some t > 0: a real root exists and the larger
\* root is positive (the origin is inside, or the sphere lies ahead)
MeetsSphereAhead(x) ==
    /\ FGe(QuadDisc(x), I(0))
    /\ \/ FLt(QuadC(x), I(0))
       \/ FLt(QuadB(x), I(0))

\* the smallest positive root
SmallestPositiveRoot(x) ==
    IF FGt(QuadC(x), I(0))
    THEN FDiv(FSub(FNeg(QuadB(x)), FSqrt(QuadDisc(x))), FMul(I(2), QuadA(x)))
    ELSE FDiv(FAdd(FNeg(QuadB(x)), FSqrt(QuadDisc(x))), FMul(I(2), QuadA(x)))

Cross(a, b) ==
    <<FSub(FMul(a[2], b[3]), FMul(a[3], b[2])),
      FSub(FMul(a[3], b[1]), FMul(a[1], b[3])),
      FSub(FMul(a[1], b[2]), FMul(a[2], b[1]))>>
Parallel(a, b) == \A i \in 1..3 : FEq(Cross(a, b)[i], I(0))

\* C6: for a ray that analytically meets the sphere at some t > 0,
\* Sphere::ray_intersect returns a hit at the smallest positive such t with a
\* normal parallel to (hit point - center), rays starting inside the sphere
\* included.
C6_SphereHitsWhenAhead ==
    (fn = "sphere" /\ MeetsSphereAhead(args)) =>
        /\ out.is_intersecting
        /\ FEq(out.distance, SmallestPositiveRoot(args))
        /\ Parallel(out.normal, VSub(out.point, args.self.center))

\* the ray reaches the open box at some t > 0 (t ranges over quarters: the
\* slab parameters of the inputs are integers)
ReachesOpenBox(x) ==
    \E q \in 1..(4 * (2 * MaxCoord + 2)) :
        \A i \in 1..3 :
            LET p == FAdd(x.ray_origin[i], FMul(x.ray_direction[i], Num(q, 4)))
            IN  FLt(x.self.min[i], p) /\ FLt(p, x.self.max[i])

\* the ray is parallel to an axis and its origin is not strictly inside that
\* axis' slab
ParallelOutsideSlab(x) ==
    \E i \in 1..3 :
        /\ IsZero(x.ray_direction[i])
        /\ ~(FLt(x.self.min[i], x.ray_origin[i]) /\ FLt(x.ray_origin[i], x.self.max[i]))

\* C7: Cube::ray_intersect reports a hit exactly when the slab entry is below
\* the slab exit and the exit is positive, i.e. exactly when the ray reaches
\* the inside of the box at some t > 0; a ray parallel to an axis outside that
\* axis' slab (either sign of the zero component) is a miss.
C7_CubeHitIffSlabsOverlapAhead ==
    fn = "cube" =>
        /\ out.is_intersecting <=> ReachesOpenBox(args)
        /\ ParallelOutsideSlab(args) => ~out.is_intersecting

\* a parallel ray outside the y slab that the x slab alone would accept
C7_Witness ==
    /\ fn = "cube"
    /\ args.ray_origin = V(-2, 2, 0)
    /\ args.ray_direction = <<I(1), NegZero, I(0)>>
    /\ ~out.is_intersecting

\* object i of the shadow query is hit by the shadow ray at ratio in (0, 1)
BlockerRatio(x, i) ==
    LET d == VSub(x.light.position, x.intersect.point)
        h == CubeRayIntersect(x.objects[i], OffsetPoint(x.intersect, d), Normalize(d))
    IN  IF h.is_intersecting THEN FDiv(h.distance, Magnitude(d)) ELSE NaN
BlockerBetween(x) ==
    \E i \in 1..Len(x.objects) :
        FGt(BlockerRatio(x, i), I(0)) /\ FLt(BlockerRatio(x, i), I(1))

\* C8: cast_shadow returns 0 without a blocker, a value strictly between 0 and
\* 0.5 when a blocker lies strictly between hit point and light, never a
\* negative value, so the effective light intensity never exceeds
\* light.intensity.
C8_ShadowWithinRange ==
    fn = "shadow" =>
        /\ ~BlockerBetween(args) => FEq(out.shadow_intensity, I(0))
        /\ BlockerBetween(args) =>
              FGt(out.shadow_intensity, I(0)) /\ FLt(out.shadow_intensity, Num(1, 2))
        /\ FGe(out.shadow_intensity, I(0))
        /\ FLe(out.light_intensity, args.light.intensity)

\* C9: the Fresnel reflectance of cast_ray is in [0, 1] for every refractive
\* index > 0 and every clamped cosine in [-1, 1].
C9_FresnelInUnitRange ==
    fn = "fresnel" => FGe(out, I(0)) /\ FLe(out, I(1))

\* a back-facing normal (cos_theta < 0), where Schlick's formula exceeds 1
C9_Witness ==
    /\ fn = "fresnel"
    /\ FGt(Dot(args.normal, args.ray_direction), I(0))
    /\ FGt(Schlick(args.normal, args.ray_direction, args.refractive_index), I(1))
    /\ out = I(1)

\* the texels a texture stores, and those of its row y
Texels(tex) == {tex.color_array[i] : i \in 1..Len(tex.color_array)}
TexelRow(tex, y) ==
    IF tex.height = 1 THEN Texels(tex)
    ELSE {TexturePixel(tex, x, y) : x \in 0..(tex.width - 1)}

\* C13: for every (u, v), in or out of [0, 1], and every texture of at least
\* one texel, Material::get_diffuse_color and Texture::get_color_at_uv return
\* a stored texel, never the magenta of an index out of range; v = 1 selects
\* row 0 and v = 0 the last row.
C13_SamplingStaysInsideTexture ==
    fn = "texture" =>
        /\ out.at_uv \in Texels(args.texture) \ {Magenta}
        /\ out.diffuse \in Texels(args.texture) \ {Magenta}
        /\ FEq(args.v, I(1)) =>
              /\ out.at_uv \in TexelRow(args.texture, 0)
              /\ out.diffuse \in TexelRow(args.texture, 0)
        /\ FEq(args.v, I(0)) =>
              /\ out.at_uv \in TexelRow(args.texture, args.texture.height - 1)
              /\ out.diffuse \in TexelRow(args.texture, args.texture.height - 1)

\* a list in the opposite order
Reversed(objs) == [k \in 1..Len(objs) |-> objs[Len(objs) + 1 - k]]

\* C14: the shadow attenuation cast_shadow computes, and with it the light
\* cast_ray adds for that light, is the same for a list of primitives and for
\* the same primitives in another order.
C14_ShadowIndependentOfOrder ==
    fn = "shadow" =>
        LET sh == CastShadow(args.intersect, args.light, Reversed(args.objects))
        IN  /\ out.shadow_intensity = sh
            /\ out.light_intensity = LightIntensity(args.light, sh)

\* the direction Snell's law gives: ratio 1 / eta_t and the normal as given
\* when the incident ray opposes the normal, ratio eta_t and the normal
\* flipped otherwise; a mirror reflection when the discriminant is <= 0
SnellRefract(incident, normal, eta_t) ==
    LET d == Dot(incident, normal)
        entering == FLt(d, I(0))
        cos == IF entering THEN FNeg(d) ELSE d
        eta == IF entering THEN FDiv(I(1), eta_t) ELSE eta_t
        n == IF entering THEN normal ELSE VNeg(normal)
        k == FSub(I(1), FMul(FMul(eta, eta), FSub(I(1), FMul(cos, cos))))
    IN  IF FLe(k, I(0))
        THEN Reflect(incident, n)
        ELSE VAdd(VScale(incident, eta), VScale(n, FSub(FMul(eta, cos), FSqrt(k))))

\* C15: refract returns the mirror reflection exactly when the discriminant
\* k is <= 0 and the Snell direction when k > 0, with ratio 1 / eta_t and the
\* normal as given for a ray that enters and eta_t and the flipped normal for
\* one that exits; no square root of a negative k enters the result.
C15_RefractFollowsSnell ==
    fn = "refract" =>
        /\ out = SnellRefract(args.incident, args.normal, args.eta_t)
        /\ \A i \in 1..3 : ~IsNaN(out[i])

----------------------------------------------------------------------------
(* get_skybox_color                                                        *)

\* atan2(y, x) / (2 pi) on the components of axis-aligned and diagonal
\* directions (the signs of zeros matter, as in IEEE 754)
Atan2OverTwoPiOf(y, x) ==
    CASE IsNaN(y) \/ IsNaN(x) -> NaN
      [] IsZero(y) /\ (IsZero(x) \/ ~IsFinite(x) \/ x.n # 0) ->
            IF Sign(x) > 0 THEN y
            ELSE IF Sign(y) > 0 THEN Num(1, 2) ELSE Num(-1, 2)
      [] IsZero(x) -> IF Sign(y) > 0 THEN Num(1, 4) ELSE Num(-1, 4)
      [] FEqOf(FAbsOf(x), FAbsOf(y)) ->
            IF Sign(x) > 0
            THEN (IF Sign(y) > 0 THEN Num(1, 8) ELSE Num(-1, 8))
            ELSE (IF Sign(y) > 0 THEN Num(3, 8) ELSE Num(-3, 8))
Atan2OverTwoPi(y, x) ==
    CHOOSE r \in {Atan2OverTwoPiOf(x0, x1) : x0 \in {y}, x1 \in {x}} : TRUE

\* asin(y) / pi for y in {-1, 0, 1}; NaN outside [-1, 1]
AsinOverPiOf(y) ==
    CASE IsNaN(y) \/ FLtOf(I(1), FAbsOf(y)) -> NaN
      [] IsZero(y) -> y
      [] FEqOf(y, I(1)) -> Num(1, 2)
      [] FEqOf(y, I(-1)) -> Num(-1, 2)
AsinOverPi(y) == CHOOSE r \in {AsinOverPiOf(x0) : x0 \in {y}} : TRUE

\* get_skybox_color
GetSkyboxColor(ray_direction, tex) ==
    CHOOSE r \in
        {GetColorAtUv(tex, FAdd(Num(1, 2), Atan2OverTwoPi(dir[1], dir[3])),
                      FSub(Num(1, 2), AsinOverPi(dir[2]))) :
            dir \in {Normalize(ray_direction)}} : TRUE

----------------------------------------------------------------------------
(* cast_ray as a machine: one frame per invocation                         *)

\* cast_ray's test `depth >= 3`
DepthExhaustedAbove(depth) == depth > MAX_DEPTH
DepthExhausted(depth) == depth >= MAX_DEPTH

\* the depth passed to a nested cast_ray
SkipDepth(depth) == depth + 2
NestedDepth(depth) == depth + 1

\* the test of the nearest-hit loop: i replaces the current candidate
Closer(i, zbuffer) == i.is_intersecting /\ FLt(i.distance, zbuffer)

\* the nearest-hit loop of cast_ray from object k on
RECURSIVE NearestFrom(_, _, _, _, _, _)
NearestFrom(objs, k, ray_origin, ray_direction, intersect, zbuffer) ==
    IF k > Len(objs) THEN intersect
    ELSE CHOOSE r \in
            {IF Closer(i, zbuffer)
             THEN NearestFrom(objs, k + 1, ray_origin, ray_direction, i, i.distance)
             ELSE NearestFrom(objs, k + 1, ray_origin, ray_direction, intersect, zbuffer) :
                i \in {CubeRayIntersectOf(objs[k], ray_origin, ray_direction)}} : TRUE

\* a fresh invocation of cast_ray
Frame(ray_origin, ray_direction, depth) ==
    [ray_origin |-> ray_origin, ray_direction |-> ray_direction, depth |-> depth,
     pc |-> "enter", intersect |-> Empty, light |-> 1, total_light |-> Black,
     fresnel_reflectance |-> I(0), reflect_color |-> Black, refract_color |-> Black,
     queries |-> 0, shaded |-> 0, calls |-> 0]

\* one pass of the light loop, given the directions and the shadow
ShadeWith(f, light, light_dir, view_dir, shadow_intensity) ==
    LET m == f.intersect.material
        reflect_dir == Normalize(Reflect(VNeg(light_dir), f.intersect.normal))
        light_intensity == LightIntensity(light, shadow_intensity)
        diffuse_intensity == FMin(FMax(Dot(f.intersect.normal, light_dir), I(0)), I(1))
        diffuse_color == GetDiffuseColor(m, f.intersect.u, f.intersect.v)
        diffuse ==
            ColorScale(ColorScale(ColorScale(diffuse_color, m.albedo[0]),
                                  diffuse_intensity), light_intensity)
        specular_intensity == FPowi(FMax(Dot(view_dir, reflect_dir), I(0)), m.specular)
        specular ==
            ColorScale(ColorScale(ColorScale(light.color, m.albedo[1]),
                                  specular_intensity), light_intensity)
    IN  ColorAdd(ColorAdd(f.total_light, diffuse), specular)

\* one pass of the light loop of cast_ray
ShadeLight(f, light, objs) ==
    CHOOSE r \in
        {ShadeWith(f, light, light_dir, view_dir, shadow_intensity) :
            light_dir \in {Normalize(VSub(light.position, f.intersect.point))},
            view_dir \in {Normalize(VSub(f.ray_origin, f.intersect.point))},
            shadow_intensity \in {CastShadowOf(f.intersect, light, objs)}} : TRUE

\* the emissive contribution of cast_ray
AddEmission(f) ==
    LET emission == ColorScale(f.intersect.material.emission, Num(1, 2))
        warm_tone == Color(255, 180, 100)
    IN  IF emission[1] > 0 \/ emission[2] > 0 \/ emission[3] > 0
        THEN CHOOSE r \in
                {ColorAdd(f.total_light,
                          ColorScale(ColorAdd(ColorScale(emission, Num(1, 5)),
                                              ColorScale(warm_tone, Num(1, 2))),
                                     FDiv(I(1),
                                          FAdd(FAdd(I(1), FMul(Num(9, 100), distance)),
                                               FMul(FMul(Num(32, 1000), distance), distance))))) :
                    distance \in {Magnitude(VSub(f.ray_origin, f.intersect.point))}} : TRUE
        ELSE f.total_light

\* the compositing of cast_ray, given the two effective weights
Composite(f, final_reflectivity, final_transparency) ==
    CHOOSE r \in
        {ClampColor(
            ColorAdd(
                ColorAdd(
                    ColorScale(ColorScale(f.total_light,
                                          FSub(FSub(I(1), final_reflectivity),
                                               final_transparency)),
                               scaling_factor),
                    ColorScale(ColorScale(f.reflect_color, final_reflectivity),
                               scaling_factor)),
                ColorScale(ColorScale(f.refract_color, final_transparency),
                           scaling_factor))) :
            scaling_factor \in
                {FDiv(I(1),
                      FAdd(FAdd(final_reflectivity, final_transparency),
                           FSub(FSub(I(1), f.intersect.material.albedo[2]),
                                f.intersect.material.albedo[3])))}} : TRUE

\* the final color of cast_ray
FinalColor(f) ==
    CHOOSE r \in
        {Composite(f, final_reflectivity, final_transparency) :
            final_reflectivity \in
                {FMul(f.fresnel_reflectance, f.intersect.material.albedo[2])},
            final_transparency \in
                {FMul(FSub(I(1), f.fresnel_reflectance),
                      f.intersect.material.albedo[3])}} : TRUE

\* the stack after its top invocation returns color: the caller stores it in
\* reflect_color or refract_color and goes on
Returned(stk, color) ==
    IF Len(stk) = 1 THEN <<>>
    ELSE LET caller == stk[Len(stk) - 1]
             resumed ==
                IF caller.pc = "reflect_wait"
                THEN [caller EXCEPT !.reflect_color = color, !.pc = "refract"]
                ELSE [caller EXCEPT !.refract_color = color, !.pc = "combine"]
         IN  Append(SubSeq(stk, 1, Len(stk) - 2), resumed)

\* the record of a finished invocation
ReturnEvent(f, color, how) ==
    [ev |-> "return", how |-> how, depth |-> f.depth, ray_origin |-> f.ray_origin,
     ray_direction |-> f.ray_direction, color |-> color, intersect |-> f.intersect,
     queries |-> f.queries, shaded |-> f.shaded, calls |-> f.calls]

CallEvent(from, to) ==
    [ev |-> "call", how |-> "call", depth |-> to, from |-> from]

\* every material is taken for reflective (not cast_ray's behaviour)
ReflectiveAtAnyWeight(material) == TRUE

\* the tests that guard the two recursive calls of cast_ray
Reflective(material) == FGt(material.albedo[2], I(0))
Transmissive(material) == FGt(material.albedo[3], I(0))

\* the stack with its top frame replaced
WithTop(stk, f) == [stk EXCEPT ![Len(stk)] = f]

\* cast_ray, lines 131-133: the depth test
Enter ==
    /\ stack # <<>>
    /\ \E f \in {stack[Len(stack)]} :
          /\ f.pc = "enter"
          /\ IF DepthExhausted(f.depth)
             THEN /\ stack' = Returned(stack, SKYBOX_COLOR)
                  /\ ret' = SKYBOX_COLOR
                  /\ log' = Append(log, ReturnEvent(f, SKYBOX_COLOR, "depth"))
             ELSE /\ stack' = WithTop(stack, [f EXCEPT !.pc = "scan"])
                  /\ UNCHANGED <<ret, log>>
    /\ UNCHANGED <<objects, lights, skybox, pureVars, renderVars, mainVars>>

\* cast_ray, lines 135-154: the nearest hit, the miss and the ambient term
Scan ==
    /\ stack # <<>>
    /\ \E f \in {stack[Len(stack)]} :
          /\ f.pc = "scan"
          /\ \E i \in {NearestFrom(objects, 1, f.ray_origin, f.ray_direction, Empty, Inf)} :
                IF ~i.is_intersecting
                THEN \E color \in {GetSkyboxColor(f.ray_direction, skybox)} :
                        /\ stack' = Returned(stack, color)
                        /\ ret' = color
                        /\ log' = Append(log,
                                    ReturnEvent([f EXCEPT !.queries = Len(objects)],
                                                color, "miss"))
                ELSE /\ stack' = WithTop(stack,
                            [f EXCEPT !.pc = "light", !.intersect = i,
                                      !.queries = Len(objects), !.light = 1,
                                      !.total_light =
                                          ColorScale(AMBIENT_LIGHT_COLOR, AMBIENT_INTENSITY)])
                     /\ UNCHANGED <<ret, log>>
    /\ UNCHANGED <<objects, lights, skybox, pureVars, renderVars, mainVars>>

\* cast_ray, lines 157-175: one light of the loop
Shade ==
    /\ stack # <<>>
    /\ \E f \in {stack[Len(stack)]} :
          /\ f.pc = "light"
          /\ f.light <= Len(lights)
          /\ stack' = WithTop(stack,
                [f EXCEPT !.total_light = ShadeLight(f, lights[f.light], objects),
                          !.light = f.light + 1, !.shaded = f.shaded + 1])
    /\ UNCHANGED <<objects, lights, skybox, ret, log, pureVars, renderVars, mainVars>>

\* cast_ray, lines 178-200: the emission and the Fresnel factor
Emit ==
    /\ stack # <<>>
    /\ \E f \in {stack[Len(stack)]} :
          /\ f.pc = "light"
          /\ f.light > Len(lights)
          /\ stack' = WithTop(stack,
                [f EXCEPT !.total_light = AddEmission(f),
                          !.fresnel_reflectance =
                              FresnelReflectance(f.intersect.normal, f.ray_direction,
                                                 f.intersect.material.refractive_index),
                          !.pc = "reflect"])
    /\ UNCHANGED <<objects, lights, skybox, ret, log, pureVars, renderVars, mainVars>>

\* cast_ray, lines 203-208: the reflection
ReflectStep ==
    /\ stack # <<>>
    /\ \E f \in {stack[Len(stack)]} :
          /\ f.pc = "reflect"
          /\ IF Reflective(f.intersect.material)
             THEN \E reflect_dir \in
                        {Normalize(Reflect(f.ray_direction, f.intersect.normal))} :
                     /\ stack' = Append(
                            WithTop(stack, [f EXCEPT !.pc = "reflect_wait",
                                                     !.calls = f.calls + 1]),
                            Frame(OffsetPoint(f.intersect, reflect_dir), reflect_dir,
                                  NestedDepth(f.depth)))
                     /\ log' = Append(log, CallEvent(f.depth, NestedDepth(f.depth)))
             ELSE /\ stack' = WithTop(stack, [f EXCEPT !.pc = "refract"])
                  /\ UNCHANGED log
    /\ UNCHANGED <<objects, lights, skybox, ret, pureVars, renderVars, mainVars>>

\* cast_ray, lines 211-216: the refraction
RefractStep ==
    /\ stack # <<>>
    /\ \E f \in {stack[Len(stack)]} :
          /\ f.pc = "refract"
          /\ IF Transmissive(f.intersect.material)
             THEN \E refract_dir \in
                        {Refract(f.ray_direction, f.intersect.normal,
                                 f.intersect.material.refractive_index)} :
                     /\ stack' = Append(
                            WithTop(stack, [f EXCEPT !.pc = "refract_wait",
                                                     !.calls = f.calls + 1]),
                            Frame(OffsetPoint(f.intersect, refract_dir), refract_dir,
                                  NestedDepth(f.depth)))
                     /\ log' = Append(log, CallEvent(f.depth, NestedDepth(f.depth)))
             ELSE /\ stack' = WithTop(stack, [f EXCEPT !.pc = "combine"])
                  /\ UNCHANGED log
    /\ UNCHANGED <<objects, lights, skybox, ret, pureVars, renderVars, mainVars>>

\* cast_ray, lines 219-229: the compositing and the return
Combine ==
    /\ stack # <<>>
    /\ \E f \in {stack[Len(stack)]} :
          /\ f.pc = "combine"
          /\ \E color \in {FinalColor(f)} :
                /\ stack' = Returned(stack, color)
                /\ ret' = color
                /\ log' = Append(log, ReturnEvent(f, color, "hit"))
    /\ UNCHANGED <<objects, lights, skybox, pureVars, renderVars, mainVars>>

----------------------------------------------------------------------------
(* Spec: cast_ray from depth 0 on scenes of cubes along the x axis         *)

MaxX == 2

Matte == Material(Color(200, 50, 50), 1, Albedo(Num(9, 10), Num(1, 10), I(0), I(0)), I(1), Black)
Mirror == Material(Color(255, 255, 255), 2, Albedo(I(0), Num(1, 2), I(1), I(0)), I(1), Black)
Glass ==
    Material(Color(100, 200, 255), 1, Albedo(Num(1, 10), Num(1, 2), Num(1, 5), Num(4, 5)),
             Num(3, 2), Black)
Glow == Material(Color(255, 223, 127), 0, Albedo(I(1), I(0), I(0), I(0)), I(1),
                 Color(255, 223, 127))
Materials == {Matte, Mirror, Glass, Glow}

\* two places for a cube, left and right of the origin
RightCubes == {Cube(V(1, -1, -1), V(3, 1, 1), m) : m \in Materials}
LeftCubes == {Cube(V(-3, -1, -1), V(-1, 1, 1), m) : m \in Materials}
Scenes ==
    {<<>>} \cup {<<c>> : c \in RightCubes \cup LeftCubes}
    \cup {<<c, e>> : c \in RightCubes, e \in LeftCubes}
    \cup {<<e, c>> : c \in RightCubes, e \in LeftCubes}

NearLight == Light(V(0, 0, 0), Color(255, 255, 255), I(1))
FarLight == Light(V(5, 0, 0), Color(255, 255, 255), Num(4, 5))
LightLists == {<<>>, <<NearLight, FarLight>>}

\* a 5 x 3 sky texture of distinct colors
SkyTexture ==
    [width |-> 5, height |-> 3,
     color_array |-> [i \in 1..15 |-> Color(10 * i, 100 + i, 255 - i)]]

RayOrigins == {V(x, 0, 0) : x \in (0 - MaxX)..MaxX}
RayDirections == {V(1, 0, 0), V(-1, 0, 0), V(0, 1, 0)}

Init ==
    /\ objects \in Scenes
    /\ lights \in LightLists
    /\ skybox = SkyTexture
    /\ \E o \in RayOrigins, d \in RayDirections : stack = <<Frame(o, d, 0)>>
    /\ ret = Black
    /\ log = <<CallEvent(-1, 0)>>
    /\ PureIdle
    /\ RenderIdle
    /\ MainIdle

Next == Enter \/ Scan \/ Shade \/ Emit \/ ReflectStep \/ RefractStep \/ Combine

Spec == Init /\ [][Next]_vars

\* cast_ray runs to completion: nothing suspends it
FairSpec == Spec /\ WF_vars(Next)

Done == stack = <<>>

----------------------------------------------------------------------------
(* Claims about cast_ray, checked under Spec and FairSpec                   *)

Events == {log[k] : k \in 1..Len(log)}
Calls == {e \in Events : e.ev = "call"}
Returns == {e \in Events : e.ev = "return"}

\* the invocation started at depth 0 and every nested one is one deeper than
\* its caller, none deeper than MAX_DEPTH
DepthChainOK ==
    /\ \A k \in 1..Len(stack) : stack[k].depth = k - 1 /\ stack[k].depth <= MAX_DEPTH
    /\ \A e \in Calls : e.from >= 0 => e.depth = e.from + 1 /\ e.depth <= MAX_DEPTH

\* C1: a cast_ray call started at depth 0 terminates, and along every chain of
\* nested calls the depth grows by exactly 1 per call and never exceeds
\* MAX_DEPTH = 3.
C1_TerminatesWithinMaxDepth == []DepthChainOK /\ <>Done

\* a finished run whose recursion went down to MAX_DEPTH
C1_Witness == Done /\ \E e \in Returns : e.depth = MAX_DEPTH

\* C2: an invocation with depth >= MAX_DEPTH queries no primitive, evaluates
\* no light, makes no recursive call and returns the color a ray of the same
\* direction gets when it hits nothing.
C2_DepthLimitReturnsEnvironment ==
    \A e \in Returns :
        e.depth >= MAX_DEPTH =>
            /\ e.queries = 0
            /\ e.shaded = 0
            /\ e.calls = 0
            /\ e.color = GetSkyboxColor(e.ray_direction, skybox)

\* C3 (as stated): an invocation at depth MAX_DEPTH - 1 makes no further
\* cast_ray invocation, whatever the weights of the material it hits.
C3_NoCallFromLastShadedDepth ==
    /\ \A e \in Returns : e.depth = MAX_DEPTH - 1 => e.calls = 0
    /\ \A e \in Calls : e.from # MAX_DEPTH - 1

\* C3 (amended): every invocation made from depth MAX_DEPTH - 1 is at depth
\* MAX_DEPTH, and an invocation at depth MAX_DEPTH queries no primitive,
\* evaluates no light and makes no invocation: nothing runs deeper.
C3_LastShadedDepthCallsOnlyTerminal ==
    /\ \A e \in Calls : e.from = MAX_DEPTH - 1 => e.depth = MAX_DEPTH
    /\ \A e \in Calls : e.from < MAX_DEPTH
    /\ \A e \in Returns :
          e.depth = MAX_DEPTH => e.calls = 0 /\ e.queries = 0 /\ e.shaded = 0

\* an invocation at depth MAX_DEPTH - 1 that hit a reflective or transmissive
\* material has returned after invoking cast_ray
C3_Witness ==
    \E e \in Returns :
        /\ e.depth = MAX_DEPTH - 1
        /\ e.calls > 0
        /\ \E c \in Calls : c.from = MAX_DEPTH - 1 /\ c.depth = MAX_DEPTH

\* the hits of the primitives at a strictly positive distance along a ray
PositiveHits(ray_origin, ray_direction) ==
    {i \in {CubeRayIntersect(objects[k], ray_origin, ray_direction) :
                k \in 1..Len(objects)} :
        i.is_intersecting /\ FGt(i.distance, I(0))}

\* C4: the hit cast_ray shades is the one of smallest strictly positive
\* distance, a hit at distance <= 0 is never selected, and cast_ray returns
\* the environment color exactly when nothing is hit at a positive distance.
C4_NearestPositiveHitShaded ==
    \A e \in Returns :
        e.depth < MAX_DEPTH =>
            \E positive \in {PositiveHits(e.ray_origin, e.ray_direction)} :
                IF positive = {}
                THEN e.how = "miss"
                ELSE /\ e.how = "hit"
                     /\ e.intersect \in positive
                     /\ \A i \in positive : FLe(e.intersect.distance, i.distance)

\* 1 when the weight is positive, 0 otherwise
Positive(weight) == IF FGt(weight, I(0)) THEN 1 ELSE 0

\* the step pushes one invocation at depth + 1 and leaves the caller at wait
Recursed(f, wait) ==
    /\ Len(stack') = Len(stack) + 1
    /\ stack'[Len(stack)].pc = wait
    /\ stack'[Len(stack')].pc = "enter"
    /\ stack'[Len(stack')].depth = f.depth + 1

\* ambient, then diffuse and specular of the lights from k on, then emission
RECURSIVE DirectLight(_, _)
DirectLight(f, k) ==
    IF k > Len(lights) THEN AddEmission(f)
    ELSE DirectLight([f EXCEPT !.total_light = ShadeLight(f, lights[k], objects)], k + 1)

\* the denominator of the scaling factor of an invocation about to composite
Denominator(f) ==
    LET a == f.intersect.material.albedo
    IN  FAdd(FAdd(FMul(f.fresnel_reflectance, a[2]),
                  FMul(FSub(I(1), f.fresnel_reflectance), a[3])),
             FSub(FSub(I(1), a[2]), a[3]))

\* C16: an invocation that found a hit calls cast_ray for the reflection if
\* and only if albedo[2] > 0 and for the refraction if and only if
\* albedo[3] > 0, each at most once and at depth + 1; with both weights 0 it
\* makes no call and returns the clamped direct light, the scaling factor
\* being 1.
C16_RecursionFollowsWeights ==
    [][stack # <<>> =>
          LET f == stack[Len(stack)]
              a == f.intersect.material.albedo
          IN  /\ f.pc = "reflect" =>
                    /\ f.calls = 0
                    /\ IF FGt(a[2], I(0)) THEN Recursed(f, "reflect_wait")
                       ELSE Len(stack') = Len(stack)
              /\ f.pc = "refract" =>
                    /\ f.calls = Positive(a[2])
                    /\ IF FGt(a[3], I(0)) THEN Recursed(f, "refract_wait")
                       ELSE Len(stack') = Len(stack)
              /\ f.pc = "combine" =>
                    /\ f.calls = Positive(a[2]) + Positive(a[3])
                    /\ Len(stack') = Len(stack) - 1
                    /\ Positive(a[2]) + Positive(a[3]) = 0 =>
                          /\ Denominator(f) = I(1)
                          /\ ret' = ClampColor(DirectLight(
                                        [f EXCEPT !.total_light =
                                            ColorScale(AMBIENT_LIGHT_COLOR, AMBIENT_INTENSITY)],
                                        1))]_vars

\* an invocation that made both calls is about to composite, and the
\* invocation it called for the reflection hit a surface of weights 0 and
\* returned without a call
C16_Witness ==
    /\ stack # <<>>
    /\ stack[Len(stack)].pc = "combine"
    /\ stack[Len(stack)].calls = 2
    /\ \E e \in Returns :
          /\ e.how = "hit" /\ e.calls = 0 /\ e.shaded > 0
          /\ e.depth = stack[Len(stack)].depth + 1

\* the primitive objects[k] reports the surface of the hit of f again, at a
\* distance of the order of the bias, along the ray from origin
SelfHit(f, origin, direction) ==
    \E k \in 1..Len(objects) :
        /\ CubeRayIntersect(objects[k], f.ray_origin, f.ray_direction) = f.intersect
        /\ \E s \in {CubeRayIntersect(objects[k], origin, direction)} :
              /\ s.is_intersecting
              /\ s.normal = f.intersect.normal
              /\ FGt(s.distance, I(0))
              /\ FLe(s.distance, FMul(I(10), BIAS))

\* the rays an invocation starts from offset_point(hit)
ShadowRays(f) ==
    {Normalize(VSub(lights[k].position, f.intersect.point)) : k \in 1..Len(lights)}
ReflectionRays(f) ==
    IF Reflective(f.intersect.material)
    THEN {Normalize(Reflect(f.ray_direction, f.intersect.normal))}
    ELSE {}
RefractionRays(f) ==
    IF Transmissive(f.intersect.material)
    THEN {Refract(f.ray_direction, f.intersect.normal,
                  f.intersect.material.refractive_index)}
    ELSE {}

\* C17: no shadow, reflection or refraction ray started from
\* offset_point(hit) reports the surface it starts from again at a distance
\* of the order of the bias, and the origin of a refraction ray lies on the
\* side of the surface the refracted ray travels into.
C17_BiasPreventsSelfIntersection ==
    \A k \in 1..Len(stack) :
        stack[k].intersect.is_intersecting =>
            \E f \in {stack[k]} :
                /\ \A d \in ShadowRays(f) \cup ReflectionRays(f) \cup RefractionRays(f) :
                      ~SelfHit(f, OffsetPoint(f.intersect, d), d)
                /\ \A d \in RefractionRays(f) :
                      FGe(Dot(VSub(OffsetPoint(f.intersect, d), f.intersect.point), d), I(0))

\* within [0, 1]
InUnit(x) == FGe(x, I(0)) /\ FLe(x, I(1))

\* C18: for a material with albedo[2] and albedo[3] in [0, 1] and a Fresnel
\* reflectance in [0, 1] the denominator of the scaling factor is strictly
\* positive, so the scaling factor is finite.
C18_ScalingDenominatorPositive ==
    \A k \in 1..Len(stack) :
        \E f \in {stack[k]} :
            (/\ f.pc = "combine"
             /\ InUnit(f.intersect.material.albedo[2])
             /\ InUnit(f.intersect.material.albedo[3])
             /\ InUnit(f.fresnel_reflectance)) =>
                /\ FGt(Denominator(f), I(0))
                /\ IsFinite(FDiv(I(1), Denominator(f)))

----------------------------------------------------------------------------
(* RenderSpec: one render pass over a small framebuffer                     *)

MaxPixels == 4

\* Color::to_hex: the packed 24-bit value
ToHex(color) == color[1] * 65536 + color[2] * 256 + color[3]

\* the framebuffer: cells row-major, all of the background color at first
Framebuffer(width, height) ==
    [width |-> width, height |-> height, current_color |-> 16777215,
     cells |-> [c \in 1..(width * height) |-> 0]]

\* the cell of (x, y) in the flat array, counted from 1
CellIndex(fb, x, y) == y * fb.width + x + 1

\* Framebuffer::set_current_color
SetCurrentColor(fb, color) == [fb EXCEPT !.current_color = color]

\* Framebuffer::point: inside the bounds only
Point(fb, x, y) ==
    IF x < fb.width /\ y < fb.height
    THEN [fb EXCEPT !.cells[CellIndex(fb, x, y)] = fb.current_color]
    ELSE fb

\* render's list of pixels: rows of (x, y), y outermost; entry k counted from 1
PixelAt(k, width) == <<(k - 1) % width, (k - 1) \div width>>

\* the point of the image plane render computes for a pixel, before the
\* scaling by the aspect ratio and the field of view
ScreenPoint(x, y, width, height) ==
    <<FSub(FDiv(FMul(I(2), I(x)), I(width)), I(1)),
      FAdd(FDiv(FNeg(FMul(I(2), I(y))), I(height)), I(1))>>

ScreenPoints(width, height) ==
    {ScreenPoint(x, y, width, height) : x \in 0..(width - 1), y \in 0..(height - 1)}

\* the colors cast_ray may yield in this model
Palette == {SKYBOX_COLOR, Color(200, 50, 50)}

\* an entry of pixel_colors the parallel map has not produced yet
Pending == <<>>

\* the closure of render's parallel map on pixel (x, y): cast_ray is a function
\* of the ray and of the scene it only reads, so its value is looked up in shade
PixelColor(x, y, fb) ==
    <<x, y, ToHex(shade[ScreenPoint(x, y, fb.width, fb.height)])>>

\* collect() returns once some entry is produced (not render's behaviour)
SomeCollected(colors) == \E k \in 1..Len(colors) : colors[k] # Pending

\* collect() returns once every entry is produced
AllCollected(colors) == \A k \in 1..Len(colors) : colors[k] # Pending

RenderInit ==
    /\ \E width \in 1..MaxPixels, height \in 1..MaxPixels :
          /\ width * height <= MaxPixels
          /\ buffer = Framebuffer(width, height)
          /\ shade \in [ScreenPoints(width, height) -> Palette]
          /\ pixel_colors = [k \in 1..(width * height) |-> Pending]
          /\ writes = [c \in 1..(width * height) |-> 0]
    /\ rpc = [phase |-> "map", i |-> 1, order |-> <<>>]
    /\ CastIdle
    /\ PureIdle
    /\ MainIdle

\* render, lines 246-255: some worker evaluates the closure on pixel k
Evaluate(k) ==
    /\ rpc.phase = "map"
    /\ pixel_colors[k] = Pending
    /\ \E p \in {PixelAt(k, buffer.width)} :
          pixel_colors' = [pixel_colors EXCEPT ![k] = PixelColor(p[1], p[2], buffer)]
    /\ rpc' = [rpc EXCEPT !.order = Append(rpc.order, k)]
    /\ UNCHANGED <<shade, buffer, writes, castVars, pureVars, mainVars>>

\* render, line 255: collect() returns
Join ==
    /\ rpc.phase = "map"
    /\ AllCollected(pixel_colors)
    /\ rpc' = [rpc EXCEPT !.phase = "write", !.i = 1]
    /\ UNCHANGED <<shade, pixel_colors, buffer, writes, castVars, pureVars, mainVars>>

\* render, lines 258-261: one turn of the sequential loop
WriteBack ==
    /\ rpc.phase = "write"
    /\ rpc.i <= Len(pixel_colors)
    /\ pixel_colors[rpc.i] # Pending
    /\ \E e \in {pixel_colors[rpc.i]} :
          /\ buffer' = Point(SetCurrentColor(buffer, e[3]), e[1], e[2])
          /\ writes' = IF e[1] < buffer.width /\ e[2] < buffer.height
                       THEN [writes EXCEPT ![CellIndex(buffer, e[1], e[2])] = @ + 1]
                       ELSE writes
    /\ rpc' = [rpc EXCEPT !.i = rpc.i + 1]
    /\ UNCHANGED <<shade, pixel_colors, castVars, pureVars, mainVars>>

\* render, line 262: the loop is over
Return ==
    /\ rpc.phase = "write"
    /\ rpc.i > Len(pixel_colors)
    /\ rpc' = [rpc EXCEPT !.phase = "done"]
    /\ UNCHANGED <<shade, pixel_colors, buffer, writes, castVars, pureVars, mainVars>>

RenderNext ==
    \/ \E k \in 1..Len(pixel_colors) : Evaluate(k)
    \/ Join
    \/ WriteBack
    \/ Return

RenderSpec == RenderInit /\ [][RenderNext]_vars

\* the color render is to leave in the cell of (x, y)
OwnColor(x, y) == ToHex(shade[ScreenPoint(x, y, buffer.width, buffer.height)])

Cells == {<<x, y>> : x \in 0..(buffer.width - 1), y \in 0..(buffer.height - 1)}

\* C10: in a render pass every cell (x, y) is written exactly once, with the
\* color of the ray built from its own (x, y); the final framebuffer is the
\* same whatever the order in which the workers evaluated the pixels; and no
\* cell is written before every pixel's color has been computed.
C10_EachCellOnceAfterJoin ==
    /\ \A c \in Cells :
          /\ writes[CellIndex(buffer, c[1], c[2])] <= 1
          /\ writes[CellIndex(buffer, c[1], c[2])] = 1 =>
                buffer.cells[CellIndex(buffer, c[1], c[2])] = OwnColor(c[1], c[2])
    /\ rpc.phase = "done" =>
          /\ \A c \in Cells : writes[CellIndex(buffer, c[1], c[2])] = 1
          /\ buffer.cells =
                [k \in 1..(buffer.width * buffer.height) |->
                    OwnColor(PixelAt(k, buffer.width)[1], PixelAt(k, buffer.width)[2])]
    /\ (\E k \in 1..Len(writes) : writes[k] > 0) =>
          /\ AllCollected(pixel_colors)
          /\ Len(rpc.order) = Len(pixel_colors)

\* a finished pass over several rows and columns whose workers evaluated the
\* pixels out of order and whose cells do not all have the same color
C10_Witness ==
    /\ rpc.phase = "done"
    /\ buffer.width > 1 /\ buffer.height > 1
    /\ rpc.order[1] > rpc.order[2]
    /\ \E c, e \in Cells : OwnColor(c[1], c[2]) # OwnColor(e[1], e[2])

----------------------------------------------------------------------------
(* MainSpec: the main loop of main.rs over a bounded number of frames      *)

MaxFrames == 2

\* the image files main decodes while it builds the scene
SceneTextures ==
    {"grass", "dirt", "iron_ore", "gold_ore", "diamond_ore", "coal_ore", "bookshelf",
     "furnance", "crafting_table", "crying_obsidian", "obsidian", "chiseled_stone",
     "gold_block", "magma", "stone_bricks", "glowstone", "stone", "netherrack"}

\* the image file render decodes
SkyFile == "sky"

\* a call of Texture::new that returned: the file, the routine that made the
\* call and the number of frames presented before it
Decode(id, phase, frame) == [id |-> id, phase |-> phase, frame |-> frame]

\* the camera pose: yaw and pitch counted in rotation_speed, the center in
\* movement_speed along x and y, the distance from eye to center in zoom_speed
Camera(yaw, pitch, center, distance) ==
    [yaw |-> yaw, pitch |-> pitch, center |-> center, distance |-> distance]

\* Camera::orbit
Orbit(camera, delta_yaw, delta_pitch) ==
    [camera EXCEPT !.yaw = @ + delta_yaw, !.pitch = @ + delta_pitch]

\* Camera::move_center
MoveCenter(camera, movement) ==
    [camera EXCEPT !.center = <<@[1] + movement[1], @[2] + movement[2]>>]

\* Camera::zoom: towards the center, never across it
Zoom(camera, delta) ==
    IF camera.distance - delta > 0
    THEN [camera EXCEPT !.distance = @ - delta]
    ELSE camera

\* main's camera: eye (-5, 5, -10) looking at the origin, 24 zoom steps away
InitialCamera == Camera(0, 0, <<0, 0>>, 24)

Keys == {"Escape", "Left", "Right", "W", "S", "A", "D", "Q", "E", "Up", "Down"}

\* the keys held down at one poll
KeySets ==
    {{}, {"Escape"}, {"Left"}, {"W"}, {"A"}, {"Q"}, {"Up"}, {"Down"},
     {"Left", "Right"}, {"A", "D"}, {"Right", "S", "D", "E", "Down"},
     {"Left", "A", "Q", "Up"}, Keys \ {"Escape"}}

\* the controls with the zoom commands left out (not main's behaviour)
HandleInputWithoutZoom(camera, keys) ==
    LET o1 == IF "Left" \in keys THEN Orbit(camera, 1, 0) ELSE camera
        o2 == IF "Right" \in keys THEN Orbit(o1, -1, 0) ELSE o1
        o3 == IF "W" \in keys THEN Orbit(o2, 0, -1) ELSE o2
        o4 == IF "S" \in keys THEN Orbit(o3, 0, 1) ELSE o3
        x1 == IF "A" \in keys THEN -1 ELSE 0
        x2 == IF "D" \in keys THEN x1 + 1 ELSE x1
        y1 == IF "Q" \in keys THEN 1 ELSE 0
        y2 == IF "E" \in keys THEN y1 - 1 ELSE y1
    IN  IF x2 # 0 \/ y2 # 0 THEN MoveCenter(o4, <<x2, y2>>) ELSE o4

\* main's camera controls: every command of the keys held down, in the
\* order of the source
HandleInput(camera, keys) ==
    LET o1 == IF "Left" \in keys THEN Orbit(camera, 1, 0) ELSE camera
        o2 == IF "Right" \in keys THEN Orbit(o1, -1, 0) ELSE o1
        o3 == IF "W" \in keys THEN Orbit(o2, 0, -1) ELSE o2
        o4 == IF "S" \in keys THEN Orbit(o3, 0, 1) ELSE o3
        x1 == IF "A" \in keys THEN -1 ELSE 0
        x2 == IF "D" \in keys THEN x1 + 1 ELSE x1
        y1 == IF "Q" \in keys THEN 1 ELSE 0
        y2 == IF "E" \in keys THEN y1 - 1 ELSE y1
        m  == IF x2 # 0 \/ y2 # 0 THEN MoveCenter(o4, <<x2, y2>>) ELSE o4
        z1 == IF "Up" \in keys THEN Zoom(m, 1) ELSE m
    IN  IF "Down" \in keys THEN Zoom(z1, -1) ELSE z1

\* main's list of lights: the main light, then one light at the center of
\* every emissive block
MainLight == Light(V(-5, 10, -10), Color(255, 255, 255), I(1))
RECURSIVE SceneLights(_, _)
SceneLights(objs, acc) ==
    IF objs = <<>> THEN acc
    ELSE LET object == Head(objs)
             e == object.material.emission
         IN  SceneLights(Tail(objs),
                 IF e[1] > 0 \/ e[2] > 0 \/ e[3] > 0
                 THEN Append(acc, Light(VAdd(object.min, <<Num(1, 2), Num(1, 2), Num(1, 2)>>),
                                        e, Num(4, 5)))
                 ELSE acc)

\* the scenes main may have built
MainScenes == {<<>>} \cup {<<c>> : c \in RightCubes}

\* the state when the loop is entered: the scene is built, every texture of
\* the scene is decoded, no frame is rendered
MainInit ==
    /\ objects \in MainScenes
    /\ lights = SceneLights(objects, <<MainLight>>)
    /\ skybox = <<>>
    /\ stack = <<>> /\ ret = Black /\ log = <<>>
    /\ PureIdle
    /\ RenderIdle
    /\ \E order \in {<<"grass", "dirt", "iron_ore", "gold_ore", "diamond_ore", "coal_ore",
                      "bookshelf", "furnance", "crafting_table", "crying_obsidian",
                      "obsidian", "chiseled_stone", "gold_block", "magma", "stone_bricks",
                      "glowstone", "stone", "netherrack">>} :
          main = [pc |-> "loop", camera |-> InitialCamera, before |-> InitialCamera,
                  keys |-> {}, frame |-> 0,
                  decodes |-> [k \in 1..Len(order) |-> Decode(order[k], "main", 0)],
                  rendered |-> <<>>, framebuffer |-> "background", shown |-> <<>>]

\* the head of the loop and the controls: the window may have been closed,
\* Escape leaves the loop, every other key held down commands the camera
PollInput ==
    /\ main.pc = "loop"
    /\ main.frame < MaxFrames
    /\ \E is_open \in BOOLEAN, keys \in KeySets :
          main' = IF ~is_open \/ "Escape" \in keys
                  THEN [main EXCEPT !.pc = "exit"]
                  ELSE [main EXCEPT !.pc = "clear", !.keys = keys,
                                    !.before = main.camera,
                                    !.camera = HandleInput(main.camera, keys)]
    /\ UNCHANGED <<castVars, pureVars, renderVars>>

\* framebuffer.clear()
ClearFrame ==
    /\ main.pc = "clear"
    /\ main' = [main EXCEPT !.pc = "render", !.framebuffer = "cleared"]
    /\ UNCHANGED <<castVars, pureVars, renderVars>>

\* render, up to the list of pixels: the sky texture is decoded, and the
\* program panics when the file cannot be opened or decoded
RenderBegin ==
    /\ main.pc = "render"
    /\ \E decoded \in BOOLEAN :
          IF decoded
          THEN /\ main' = [main EXCEPT !.pc = "pixels",
                              !.decodes = Append(@, Decode(SkyFile, "render", main.frame))]
               /\ skybox' = SkyTexture
          ELSE /\ main' = [main EXCEPT !.pc = "panic"]
               /\ UNCHANGED skybox
    /\ UNCHANGED <<objects, lights, stack, ret, log, pureVars, renderVars>>

\* render's parallel map: every pixel's ray is built from the camera and
\* traced through the objects and the lights
RenderPixels ==
    /\ main.pc = "pixels"
    /\ main' = [main EXCEPT !.pc = "write",
                   !.rendered = [camera |-> main.camera, objects |-> objects,
                                 lights |-> lights]]
    /\ UNCHANGED <<castVars, pureVars, renderVars>>

\* render's write-back of the collected colors
RenderWrite ==
    /\ main.pc = "write"
    /\ main' = [main EXCEPT !.pc = "present", !.framebuffer = main.rendered,
                            !.rendered = <<>>]
    /\ skybox' = <<>>
    /\ UNCHANGED <<objects, lights, stack, ret, log, pureVars, renderVars>>

\* window.update_with_buffer and the sleep
Present ==
    /\ main.pc = "present"
    /\ main' = [main EXCEPT !.pc = "loop", !.frame = @ + 1,
                            !.shown = Append(@, main.framebuffer)]
    /\ UNCHANGED <<castVars, pureVars, renderVars>>

MainNext ==
    PollInput \/ ClearFrame \/ RenderBegin \/ RenderPixels \/ RenderWrite \/ Present

MainSpec == MainInit /\ [][MainNext]_vars

\* the positions of the loop from the call of render to the hand-over
RenderPass == {"render", "pixels", "write", "present"}

\* the pose the commands of one poll leave, far from the center
Commanded(before, keys) ==
    LET On(key) == IF key \in keys THEN 1 ELSE 0
    IN  Camera(before.yaw + On("Left") - On("Right"),
               before.pitch + On("S") - On("W"),
               <<before.center[1] + On("D") - On("A"),
                 before.center[2] + On("Q") - On("E")>>,
               before.distance + On("Down") - On("Up"))

\* C11: the camera changes only in the controls at the head of an iteration;
\* from the call of render until the framebuffer is handed to the window
\* neither the camera nor the objects nor the lights change, and the frame
\* handed over was rendered with the pose every command of that iteration
\* produced.
C11_CameraChangesOnlyBetweenFrames ==
    [][/\ main.pc # "loop" => main'.camera = main.camera
       /\ main.pc \in RenderPass =>
             /\ main'.camera = main.camera
             /\ objects' = objects
             /\ lights' = lights
       /\ main.pc = "present" /\ main'.pc = "loop" =>
             /\ Len(main'.shown) = Len(main.shown) + 1
             /\ main'.shown[Len(main'.shown)] =
                   [camera |-> Commanded(main.before, main.keys),
                    objects |-> objects, lights |-> lights]]_vars

\* two frames were presented, the second after orbit, move_center and zoom
\* commands, with poses that differ
C11_Witness ==
    /\ main.pc = "loop"
    /\ Len(main.shown) >= 2
    /\ {"Left", "A", "Up"} \subseteq main.keys
    /\ main.shown[1].camera # main.shown[2].camera
    /\ main.shown[2].camera = main.camera

\* C12: every texture, the sky texture included, is decoded exactly once, by
\* main before the loop; no decode happens in a render pass or on a frame
\* after the first.
C12_EveryTextureDecodedOnceBeforeLoop ==
    /\ \A t \in SceneTextures \cup {SkyFile} :
          Cardinality({k \in 1..Len(main.decodes) : main.decodes[k].id = t}) = 1
    /\ \A k \in 1..Len(main.decodes) :
          main.decodes[k].phase = "main" /\ main.decodes[k].frame = 0
    /\ main.pc # "panic"

====
